---------------------------- MODULE Spec2Model ----------------------------
(***************************************************************************)
(* Model of static/js/recorder.js: the WAV encoder (encodeWAV,             *)
(* writeString) as operators over byte sequences, and the recording        *)
(* session glue (click handler, startRecording, stopRecording, onStop) as  *)
(* a state machine.                                                        *)
(*                                                                         *)
(* Numbers.  A Float32 sample s is held as the integer s * One with        *)
(* One = 2^16, so every sample of the model is a float32 value and the     *)
(* products s * 0x8000 and s * 0x7fff are exact, as they are in the        *)
(* double arithmetic of the code.  A DataView is a sequence of bytes;      *)
(* byte offset k of the code is index k + 1 of the sequence.               *)
(* Samples are finite numbers: decodeAudioData yields no NaN.              *)
(*                                                                         *)
(* Environment.  getUserMedia, the AudioContext constructor,               *)
(* decodeAudioData, fetch and resp.json() may each succeed or fail;        *)
(* webmBlob.arrayBuffer() of an in-memory Blob always resolves.            *)
(***************************************************************************)
EXTENDS Integers, Sequences, FiniteSets, TLC

(***************************************************************************)
(* Bounds of the model.                                                    *)
(***************************************************************************)
MaxChannels == 3
MaxFrames == 2
MaxSamples == 6

(* Fixed-point unit: the sample value 1.0. *)
One == 65536

(* Sample values fed to the encoder, as multiples of 1/One:                *)
(* -1.5, -65535/65536, 0, 0.5, 65535/65536, 1.5.                           *)
Samples == {-98304, -65535, 0, 32768, 65535, 98304}

(* Sample rates of the decoded buffers. *)
SampleRates == {44100, 96000}

(* Bounds and sample values of the two-call specification. *)
PairMaxChannels == 3
PairMaxFrames == 2
PairMaxSamples == 4
PairSamples == {-65535, 32768}

(* Bound of the recording-session specification: startRecording calls. *)
MaxSessions == 2

VARIABLES
    audioBuffer,    \* the AudioBuffer handed to encodeWAV
    wav,            \* what that encodeWAV call produced
    other,          \* the AudioBuffer of a second, independent call
    wavOther,       \* what the second call produced
    mediaRecorder,  \* module variable: 0 (undefined) or the current recorder
    chunks,         \* module variable: the current chunks array
    recState,       \* state of each MediaRecorder created so far
    stoppedBy,      \* what called stop() on each recorder
    calls,          \* number of startRecording calls made
    created,        \* number of MediaRecorders constructed
    pendingGUM,     \* startRecording calls suspended at await getUserMedia
    timers,         \* armed 8-second timers, in the order they will fire
    stopQueue,      \* recorders whose dataavailable/stop task is queued
    run,            \* the onStop run of each recorder's stop event
    status,         \* status.innerText
    btnText,        \* recordBtn.innerText
    page,           \* which of the two scripts the page has loaded
    zenMediaRecorder, \* this.mediaRecorder: 0 (null) or the current recorder
    audioChunks,    \* this.audioChunks
    isRecording,    \* this.isRecording
    zenRecState,    \* state of each MediaRecorder ZenZone has created
    zenCalls,       \* number of ZenZone.startRecording calls made
    zenCreated,     \* number of MediaRecorders ZenZone has constructed
    zenPendingGUM,  \* startRecording calls suspended at await getUserMedia
    zenStopQueue,   \* recorders whose dataavailable/stop task is queued
    processRun,     \* the processAudio run of each recorder's stop event
    alerts,         \* the alert() messages shown so far
    buttonText      \* recordButton.textContent

encVars == <<audioBuffer, wav, other, wavOther>>
recVars == <<mediaRecorder, chunks, recState, stoppedBy, calls, created,
             pendingGUM, timers, stopQueue, run, status, btnText>>
zenVars == <<page, zenMediaRecorder, audioChunks, isRecording, zenRecState,
             zenCalls, zenCreated, zenPendingGUM, zenStopQueue, processRun,
             alerts, buttonText>>
vars == <<audioBuffer, wav, other, wavOther, mediaRecorder, chunks, recState,
          stoppedBy, calls, created, pendingGUM, timers, stopQueue, run,
          status, btnText, page, zenMediaRecorder, audioChunks, isRecording,
          zenRecState, zenCalls, zenCreated, zenPendingGUM, zenStopQueue,
          processRun, alerts, buttonText>>

----------------------------------------------------------------------------
(***************************************************************************)
(* Number helpers (Math.min, Math.max, truncation of ToInt16/ToUint32).    *)
(***************************************************************************)
Min(a, b) == IF a < b THEN a ELSE b

Max(a, b) == IF a > b THEN a ELSE b

(* num / den truncated toward zero (den > 0): the floor of a number >= 0,  *)
(* the ceiling of a negative one.                                          *)
Trunc(num, den) ==
    IF num >= 0 \/ num % den = 0 THEN num \div den ELSE (num \div den) + 1

----------------------------------------------------------------------------
(***************************************************************************)
(* DataView writes.                                                        *)
(***************************************************************************)
SetUint8(view, offset, value) ==
    [view EXCEPT ![offset + 1] = value % 256]

SetUint16BigEndian(view, offset, value) ==
    LET v == value % 65536
    IN  [view EXCEPT ![offset + 1] = v \div 256,
                     ![offset + 2] = v % 256]

(* setUint16(offset, value, true): little-endian, value modulo 2^16. *)
SetUint16(view, offset, value) ==
    LET v == value % 65536
    IN  [view EXCEPT ![offset + 1] = v % 256,
                     ![offset + 2] = v \div 256]

(* setUint32(offset, value, true): little-endian, value modulo 2^32; byte j *)
(* of a two's complement number is floor(value / 256^j) modulo 256.        *)
SetUint32(view, offset, value) ==
    [view EXCEPT ![offset + 1] = value % 256,
                 ![offset + 2] = (value \div 256) % 256,
                 ![offset + 3] = (value \div 65536) % 256,
                 ![offset + 4] = (value \div 16777216) % 256]

SetInt16BigEndian(view, offset, num, den) ==
    LET v == Trunc(num, den) % 65536
    IN  [view EXCEPT ![offset + 1] = v \div 256,
                     ![offset + 2] = v % 256]

(* setInt16(offset, num/den, true): the number is truncated toward zero,   *)
(* taken modulo 2^16 and stored little-endian in two's complement.         *)
SetInt16(view, offset, num, den) ==
    LET v == Trunc(num, den) % 65536
    IN  [view EXCEPT ![offset + 1] = v % 256,
                     ![offset + 2] = v \div 256]

(* writeString(view, offset, string), string given by its char codes. *)
RECURSIVE WriteStringFrom(_, _, _, _)
WriteStringFrom(view, offset, string, i) ==
    IF i < Len(string)
    THEN WriteStringFrom(SetUint8(view, offset + i, string[i + 1]),
                         offset, string, i + 1)
    ELSE view

writeString(view, offset, string) == WriteStringFrom(view, offset, string, 0)

(* Char codes of the four chunk tags. *)
StrRIFF == <<82, 73, 70, 70>>
StrWAVE == <<87, 65, 86, 69>>
StrFmt  == <<102, 109, 116, 32>>
StrData == <<100, 97, 116, 97>>

----------------------------------------------------------------------------
(***************************************************************************)
(* encodeWAV.                                                              *)
(***************************************************************************)
(* An AudioBuffer: numberOfChannels, sampleRate, length (frames) and the   *)
(* channel buffers; channel i of the code is channels[i + 1].              *)
MakeBuffer(c, r, f, ch) ==
    [numberOfChannels |-> c, sampleRate |-> r, length |-> f, channels |-> ch]

(* getChannelData(i) throws IndexSizeError when there is no channel i. *)
GetChannelDataThrows(ab, i) == i >= ab.numberOfChannels

GetChannelData(ab, i) == ab.channels[i + 1]

NumChannelsNoCap(ab) == ab.numberOfChannels

NumChannels(ab) == Min(2, ab.numberOfChannels)

InterleavePlanar(ch0, ch1) == ch0 \o ch1

(* The interleaving loop: interleaved[2i] = ch0[i], interleaved[2i+1] = ch1[i]. *)
InterleaveStereo(ch0, ch1) ==
    [k \in 1..(Len(ch0) + Len(ch1)) |->
        IF k % 2 = 1 THEN ch0[(k + 1) \div 2] ELSE ch1[k \div 2]]

InterleaveLastChannel(ab) ==
    IF NumChannels(ab) = 2
    THEN InterleaveStereo(GetChannelData(ab, 0),
                          GetChannelData(ab, ab.numberOfChannels - 1))
    ELSE GetChannelData(ab, 0)

Interleave(ab) ==
    IF NumChannels(ab) = 2
    THEN InterleaveStereo(GetChannelData(ab, 0), GetChannelData(ab, 1))
    ELSE GetChannelData(ab, 0)

ClampMinMaxSwapped(s) == Min(-One, Max(One, s))

(* Math.max(-1, Math.min(1, s)) *)
Clamp(s) == Max(-One, Min(One, s))

(* Scale factors 0x8000 and 0x7fff. *)
ScaleNeg == 32768
ScalePos == 32767

(* Numerator (over One) of  s < 0 ? s * 0x8000 : s * 0x7fff. *)
ScaledPosOnly(s) == s * ScalePos
Scaled(s) == IF s < 0 THEN s * ScaleNeg ELSE s * ScalePos

(* The PCM loop: sample i goes to offset 44 + 2i. *)
RECURSIVE WriteSamples(_, _, _, _)
WriteSamples(view, interleaved, i, offset) ==
    IF i < Len(interleaved)
    THEN WriteSamples(
            SetInt16(view, offset, Scaled(Clamp(interleaved[i + 1])), One),
            interleaved, i + 1, offset + 2)
    ELSE view

HeaderLen == 44

WriteHeaderTotalLen(view, numChannels, sampleRate, n) ==
    LET v1  == writeString(view, 0, StrRIFF)
        v2  == SetUint32(v1, 4, 44 + n * 2)
        v3  == writeString(v2, 8, StrWAVE)
        v4  == writeString(v3, 12, StrFmt)
        v5  == SetUint32(v4, 16, 16)
        v6  == SetUint16(v5, 20, 1)
        v7  == SetUint16(v6, 22, numChannels)
        v8  == SetUint32(v7, 24, sampleRate)
        v9  == SetUint32(v8, 28, sampleRate * numChannels * 2)
        v10 == SetUint16(v9, 32, numChannels * 2)
        v11 == SetUint16(v10, 34, 16)
        v12 == writeString(v11, 36, StrData)
    IN  SetUint32(v12, 40, n * 2)

WriteHeader(view, numChannels, sampleRate, n) ==
    LET v1  == writeString(view, 0, StrRIFF)
        v2  == SetUint32(v1, 4, 36 + n * 2)
        v3  == writeString(v2, 8, StrWAVE)
        v4  == writeString(v3, 12, StrFmt)
        v5  == SetUint32(v4, 16, 16)
        v6  == SetUint16(v5, 20, 1)
        v7  == SetUint16(v6, 22, numChannels)
        v8  == SetUint32(v7, 24, sampleRate)
        v9  == SetUint32(v8, 28, sampleRate * numChannels * 2)
        v10 == SetUint16(v9, 32, numChannels * 2)
        v11 == SetUint16(v10, 34, 16)
        v12 == writeString(v11, 36, StrData)
    IN  SetUint32(v12, 40, n * 2)

(* The bytes of the Blob encodeWAV returns (when it returns). *)
EncodeBytes(ab) ==
    LET interleaved == Interleave(ab)
        n      == Len(interleaved)
        buffer == [k \in 1..(HeaderLen + n * 2) |-> 0]
        header == WriteHeader(buffer, NumChannels(ab), ab.sampleRate, n)
    IN  WriteSamples(header, interleaved, 0, HeaderLen)

(* encodeWAV throws exactly when a getChannelData call does. *)
EncodeThrows(ab) ==
    IF NumChannels(ab) = 2
    THEN GetChannelDataThrows(ab, 0) \/ GetChannelDataThrows(ab, 1)
    ELSE GetChannelDataThrows(ab, 0)

(* Outcome of a call: not yet called, threw, or returned a Blob. *)
NotCalled == [called |-> FALSE, threw |-> FALSE, type |-> "", bytes |-> <<>>]
Thrown    == [called |-> TRUE, threw |-> TRUE, type |-> "", bytes |-> <<>>]

encodeWAV(ab) ==
    IF EncodeThrows(ab)
    THEN Thrown
    ELSE [called |-> TRUE, threw |-> FALSE, type |-> "audio/wav",
          bytes |-> EncodeBytes(ab)]

----------------------------------------------------------------------------
NoBuffer == MakeBuffer(0, 0, 0, <<>>)

(***************************************************************************)
(* The recording session of recorder.js.                                   *)
(*                                                                         *)
(* Recorders are numbered 1, 2, ... in the order new MediaRecorder(stream) *)
(* runs.  A recorder started without a timeslice emits one data chunk,     *)
(* when it stops; chunk r is the data of recorder r.  Every await of the   *)
(* code is a point where the other handlers may run, so every handler is   *)
(* cut into one action per stretch of code between awaits.                 *)
(***************************************************************************)
Recorders == 1..MaxSessions

(* The decoded buffers decodeAudioData may resolve with: one stereo frame  *)
(* (what encodeWAV makes of any buffer is the encoder specification's      *)
(* subject).                                                               *)
DecodedBuffers == {MakeBuffer(2, 96000, 1, <<<<65535>>, <<-98304>>>>)}

(* An onStop run that has not begun.  trace is what the run has shown and   *)
(* called, in order: the status texts it set and "onAnalyzeResult" for the *)
(* call of window.onAnalyzeResult.  outcome is how far the run got:        *)
(* "context" and "encode" for an exception before the upload, "fetch" for  *)
(* a rejected fetch or a response that is not ok, "body" for a body that   *)
(* is no JSON, "parsed" for an ok response whose body was parsed.          *)
IdleRun ==
    [pc |-> "idle", webmBlob |-> <<>>, decode |-> "none", encoded |-> FALSE,
     path |-> "none", posts |-> <<>>, outcome |-> "none",
     callback |-> "none", trace |-> <<>>]

(* The two scripts; a page loads one of them. *)
Pages == {"recorder.js", "zenzone.js"}

RecInit ==
    /\ mediaRecorder = 0
    /\ chunks = <<>>
    /\ recState = [r \in Recorders |-> "none"]
    /\ stoppedBy = [r \in Recorders |-> <<"none", 0>>]
    /\ calls = 0
    /\ created = 0
    /\ pendingGUM = 0
    /\ timers = <<>>
    /\ stopQueue = <<>>
    /\ run = [r \in Recorders |-> IdleRun]
    /\ status = ""
    /\ btnText = "Start Session"

(* stopRecording(): mediaRecorder.stop() makes the recorder inactive at    *)
(* once and queues the task that fires dataavailable and then stop.        *)
StopRecording(cause) ==
    /\ recState' = [recState EXCEPT ![mediaRecorder] = "inactive"]
    /\ stoppedBy' = [stoppedBy EXCEPT ![mediaRecorder] = cause]
    /\ stopQueue' = Append(stopQueue, mediaRecorder)
    /\ btnText' = "Start Session"
    /\ status' = "Processing..."

(* !mediaRecorder || mediaRecorder.state === 'inactive' *)
NoActiveRecorder ==
    IF mediaRecorder = 0 THEN TRUE ELSE recState[mediaRecorder] = "inactive"

(* mediaRecorder && mediaRecorder.state === 'recording' *)
CurrentIsRecording ==
    IF mediaRecorder = 0 THEN FALSE ELSE recState[mediaRecorder] = "recording"

(* recordBtn.onclick with no recorder, or an inactive one: startRecording  *)
(* is entered and suspends at await getUserMedia.                          *)
ClickStart ==
    /\ page = "recorder.js"
    /\ NoActiveRecorder
    /\ calls < MaxSessions
    /\ calls' = calls + 1
    /\ pendingGUM' = pendingGUM + 1
    /\ UNCHANGED <<encVars, zenVars, mediaRecorder, chunks, recState, stoppedBy,
                   created, timers, stopQueue, run, status, btnText>>

(* recordBtn.onclick with the current recorder not inactive. *)
ClickStop ==
    /\ ~NoActiveRecorder
    /\ StopRecording(<<"click", 0>>)
    /\ UNCHANGED <<encVars, zenVars, mediaRecorder, chunks, calls, created,
                   pendingGUM, timers, run>>

(* getUserMedia resolves: the rest of startRecording runs. *)
GetUserMediaResolve ==
    /\ pendingGUM > 0
    /\ pendingGUM' = pendingGUM - 1
    /\ created' = created + 1
    /\ mediaRecorder' = created + 1
    /\ chunks' = <<>>
    /\ recState' = [recState EXCEPT ![created + 1] = "recording"]
    /\ btnText' = "Stop"
    /\ status' = "Recording..."
    /\ timers' = Append(timers, created + 1)
    /\ UNCHANGED <<encVars, zenVars, stoppedBy, calls, stopQueue, run>>

(* getUserMedia rejects: startRecording's promise rejects, and the click   *)
(* handler's with it; nothing catches it.                                  *)
GetUserMediaReject ==
    /\ pendingGUM > 0
    /\ pendingGUM' = pendingGUM - 1
    /\ UNCHANGED <<encVars, zenVars, mediaRecorder, chunks, recState, stoppedBy,
                   calls, created, timers, stopQueue, run, status, btnText>>

(* The oldest armed timer fires: it stops the current recorder if that one *)
(* is recording.                                                           *)
TimerFire ==
    /\ timers # <<>>
    /\ timers' = Tail(timers)
    /\ IF CurrentIsRecording
       THEN StopRecording(<<"timer", Head(timers)>>)
       ELSE UNCHANGED <<recState, stoppedBy, stopQueue, btnText, status>>
    /\ UNCHANGED <<encVars, zenVars, mediaRecorder, chunks, calls, created, pendingGUM,
                   run>>

(* The task queued by stop(): dataavailable (the handler pushes the chunk  *)
(* onto the current chunks array), then stop (onStop builds the Blob from  *)
(* the current chunks array and suspends at await webmBlob.arrayBuffer()). *)
StopEvent ==
    /\ stopQueue # <<>>
    /\ LET r == Head(stopQueue)
           pushed == Append(chunks, r)
       IN  /\ chunks' = pushed
           /\ run' = [run EXCEPT ![r] =
                        [@ EXCEPT !.pc = "arrayBuffer", !.webmBlob = pushed]]
    /\ stopQueue' = Tail(stopQueue)
    /\ UNCHANGED <<encVars, zenVars, mediaRecorder, recState, stoppedBy, calls, created,
                   pendingGUM, timers, status, btnText>>

(* The outer catch of onStop: status 'Error', and the run is over. *)
Failed(rn, why) ==
    [rn EXCEPT !.pc = "done", !.outcome = why, !.trace = Append(@, "Error")]

(* arrayBuffer() has resolved: the AudioContext is constructed and         *)
(* decodeAudioData is called.                                              *)
ContextCreated(r) ==
    /\ run[r].pc = "arrayBuffer"
    /\ run' = [run EXCEPT ![r] = [@ EXCEPT !.pc = "decode", !.decode = "pending"]]
    /\ UNCHANGED <<encVars, zenVars, mediaRecorder, chunks, recState, stoppedBy,
                   calls, created, pendingGUM, timers, stopQueue, status,
                   btnText>>

(* arrayBuffer() has resolved and the AudioContext constructor throws. *)
ContextFails(r) ==
    /\ run[r].pc = "arrayBuffer"
    /\ run' = [run EXCEPT ![r] = Failed(@, "context")]
    /\ status' = "Error"
    /\ UNCHANGED <<encVars, zenVars, mediaRecorder, chunks, recState, stoppedBy,
                   calls, created, pendingGUM, timers, stopQueue, btnText>>

(* The body of the WAV upload: form.append('audio', wavBlob, 'sample.wav'). *)
WavBody(blob) ==
    [filename |-> "sample.wav", type |-> blob.type, content |-> blob.bytes]

(* The body of the fallback upload:                                        *)
(* form.append('audio', webmBlob, 'sample.webm').                          *)
WebmBody(webmBlob) ==
    [filename |-> "sample.webm", type |-> "audio/webm", content |-> webmBlob]

(* status 'Uploading...' and fetch('/analyze', {method: 'POST', body}). *)
Upload(rn, path, body) ==
    [rn EXCEPT !.pc = "fetch", !.path = path, !.posts = Append(@, body),
               !.trace = Append(@, "Uploading...")]

(* decodeAudioData resolves with a buffer: encodeWAV, then the upload. *)
DecodeResolve(r) ==
    /\ run[r].pc = "decode"
    /\ \E buf \in DecodedBuffers :
          LET blob == encodeWAV(buf)
              rn == [run[r] EXCEPT !.decode = "ok", !.encoded = TRUE]
          IN  IF blob.threw
              THEN /\ run' = [run EXCEPT ![r] = Failed(rn, "encode")]
                   /\ status' = "Error"
              ELSE /\ run' = [run EXCEPT ![r] = Upload(rn, "wav", WavBody(blob))]
                   /\ status' = "Uploading..."
    /\ UNCHANGED <<encVars, zenVars, mediaRecorder, chunks, recState, stoppedBy,
                   calls, created, pendingGUM, timers, stopQueue, btnText>>

(* decodeAudioData rejects: the inner catch uploads the recorded WebM. *)
DecodeReject(r) ==
    /\ run[r].pc = "decode"
    /\ run' = [run EXCEPT ![r] =
                 Upload([@ EXCEPT !.decode = "failed"], "webm",
                        WebmBody(@.webmBlob))]
    /\ status' = "Uploading..."
    /\ UNCHANGED <<encVars, zenVars, mediaRecorder, chunks, recState, stoppedBy,
                   calls, created, pendingGUM, timers, stopQueue, btnText>>

(* fetch resolves with resp.ok: resp.json() is awaited. *)
FetchOk(r) ==
    /\ run[r].pc = "fetch"
    /\ run' = [run EXCEPT ![r] = [@ EXCEPT !.pc = "json"]]
    /\ UNCHANGED <<encVars, zenVars, mediaRecorder, chunks, recState, stoppedBy,
                   calls, created, pendingGUM, timers, stopQueue, status,
                   btnText>>

(* FetchFails with one automatic retry: the first failure posts the body   *)
(* again instead of reaching the outer catch.                              *)
FetchFailsRetry(r) ==
    /\ run[r].pc = "fetch"
    /\ IF Len(run[r].posts) < 2
       THEN /\ run' = [run EXCEPT ![r] =
                        [@ EXCEPT !.posts = Append(@, @[1])]]
            /\ UNCHANGED status
       ELSE /\ run' = [run EXCEPT ![r] = Failed(@, "fetch")]
            /\ status' = "Error"
    /\ UNCHANGED <<encVars, zenVars, mediaRecorder, chunks, recState, stoppedBy,
                   calls, created, pendingGUM, timers, stopQueue, btnText>>

(* fetch rejects, or resolves with !resp.ok and the code throws: on either *)
(* path the exception reaches the outer catch.                             *)
FetchFails(r) ==
    /\ run[r].pc = "fetch"
    /\ run' = [run EXCEPT ![r] = Failed(@, "fetch")]
    /\ status' = "Error"
    /\ UNCHANGED <<encVars, zenVars, mediaRecorder, chunks, recState, stoppedBy,
                   calls, created, pendingGUM, timers, stopQueue, btnText>>

(* What window.onAnalyzeResult can be when the run reaches it. *)
Callbacks == {"absent", "returned", "threw"}

(* if (window.onAnalyzeResult) { window.onAnalyzeResult(j) }: what the     *)
(* call adds to the trace.                                                 *)
Invoked(cb) == IF cb = "absent" THEN <<>> ELSE <<"onAnalyzeResult">>

(* JsonResolve with the inner catch's return missing: after the fallback   *)
(* upload the run goes on to encodeWAV(undefined), which throws.           *)
JsonResolveNoReturn(r) ==
    /\ run[r].pc = "json"
    /\ \E cb \in Callbacks :
          LET errorShown == cb = "threw" /\ run[r].path = "wav"
              fallsThrough == run[r].path = "webm"
          IN  /\ run' = [run EXCEPT ![r] =
                    [@ EXCEPT !.pc = "done", !.callback = cb,
                              !.outcome = "parsed",
                              !.encoded = @ \/ fallsThrough,
                              !.trace =
                                 @ \o <<"Done">> \o Invoked(cb)
                                   \o (IF errorShown \/ fallsThrough
                                       THEN <<"Error">> ELSE <<>>)]]
              /\ status' = IF errorShown \/ fallsThrough
                           THEN "Error" ELSE "Done"
    /\ UNCHANGED <<encVars, zenVars, mediaRecorder, chunks, recState, stoppedBy,
                   calls, created, pendingGUM, timers, stopQueue, btnText>>

(* JsonResolve with the callback invoked before status 'Done' is set. *)
JsonResolveCallbackFirst(r) ==
    /\ run[r].pc = "json"
    /\ \E cb \in Callbacks :
          LET errorShown == cb = "threw" /\ run[r].path = "wav"
          IN  /\ run' = [run EXCEPT ![r] =
                    [@ EXCEPT !.pc = "done", !.callback = cb,
                              !.outcome = "parsed",
                              !.trace =
                                 @ \o Invoked(cb) \o <<"Done">>
                                   \o (IF errorShown
                                       THEN <<"Error">> ELSE <<>>)]]
              /\ status' = IF errorShown THEN "Error" ELSE "Done"
    /\ UNCHANGED <<encVars, zenVars, mediaRecorder, chunks, recState, stoppedBy,
                   calls, created, pendingGUM, timers, stopQueue, btnText>>

(* resp.json() resolves: status 'Done', then the callback if there is one. *)
(* A throwing callback sets status 'Error' on the WAV path only.           *)
JsonResolve(r) ==
    /\ run[r].pc = "json"
    /\ \E cb \in Callbacks :
          LET errorShown == cb = "threw" /\ run[r].path = "wav"
          IN  /\ run' = [run EXCEPT ![r] =
                    [@ EXCEPT !.pc = "done", !.callback = cb,
                              !.outcome = "parsed",
                              !.trace =
                                 @ \o <<"Done">> \o Invoked(cb)
                                   \o (IF errorShown
                                       THEN <<"Error">> ELSE <<>>)]]
              /\ status' = IF errorShown THEN "Error" ELSE "Done"
    /\ UNCHANGED <<encVars, zenVars, mediaRecorder, chunks, recState, stoppedBy,
                   calls, created, pendingGUM, timers, stopQueue, btnText>>

(* resp.json() rejects (the body is no JSON). *)
JsonReject(r) ==
    /\ run[r].pc = "json"
    /\ run' = [run EXCEPT ![r] = Failed(@, "body")]
    /\ status' = "Error"
    /\ UNCHANGED <<encVars, zenVars, mediaRecorder, chunks, recState, stoppedBy,
                   calls, created, pendingGUM, timers, stopQueue, btnText>>

OnStopStep(r) ==
    \/ ContextCreated(r)
    \/ ContextFails(r)
    \/ DecodeResolve(r)
    \/ DecodeReject(r)
    \/ FetchOk(r)
    \/ FetchFails(r)
    \/ JsonResolve(r)
    \/ JsonReject(r)

RecNext ==
    \/ ClickStart
    \/ ClickStop
    \/ GetUserMediaResolve
    \/ GetUserMediaReject
    \/ TimerFire
    \/ StopEvent
    \/ \E r \in Recorders : OnStopStep(r)

(***************************************************************************)
(* The recording session of zenzone.js (class ZenZone).                    *)
(*                                                                         *)
(* Recorders are numbered as in recorder.js, and chunk r is the data of    *)
(* recorder r.  ZenZone arms no timer: only a click stops a recorder.      *)
(***************************************************************************)

(* A processAudio run that has not begun.  outcome: "fetch" and "body" as  *)
(* in recorder.js, "updateUI" for an exception in updateUI, "parsed" when  *)
(* updateUI returned.                                                      *)
IdleProcess ==
    [pc |-> "idle", audioBlob |-> <<>>, posts |-> <<>>, outcome |-> "none"]

(* The constructor of ZenZone. *)
ZenInit ==
    /\ zenMediaRecorder = 0
    /\ audioChunks = <<>>
    /\ isRecording = FALSE
    /\ zenRecState = [r \in Recorders |-> "none"]
    /\ zenCalls = 0
    /\ zenCreated = 0
    /\ zenPendingGUM = 0
    /\ zenStopQueue = <<>>
    /\ processRun = [r \in Recorders |-> IdleProcess]
    /\ alerts = <<>>
    /\ buttonText = "Start Recording"

(* toggleRecording with isRecording false: startRecording is entered and   *)
(* suspends at await getUserMedia.                                         *)
ZenClickStart ==
    /\ page = "zenzone.js"
    /\ ~isRecording
    /\ zenCalls < MaxSessions
    /\ zenCalls' = zenCalls + 1
    /\ zenPendingGUM' = zenPendingGUM + 1
    /\ UNCHANGED <<encVars, recVars, page, zenMediaRecorder, audioChunks,
                   isRecording, zenRecState, zenCreated, zenStopQueue,
                   processRun, alerts, buttonText>>

(* toggleRecording with isRecording true: stopRecording.  stop() on a      *)
(* recorder that is not recording depends on the browser: it throws        *)
(* InvalidStateError before any assignment, or it returns without effect   *)
(* and the assignments that follow it run; no stop event is queued.        *)
ZenClickStop ==
    /\ isRecording
    /\ IF zenRecState[zenMediaRecorder] = "recording"
       THEN /\ zenRecState' = [zenRecState EXCEPT ![zenMediaRecorder] = "inactive"]
            /\ zenStopQueue' = Append(zenStopQueue, zenMediaRecorder)
            /\ isRecording' = FALSE
            /\ buttonText' = "Start Recording"
       ELSE /\ UNCHANGED <<zenRecState, zenStopQueue>>
            /\ \/ UNCHANGED <<isRecording, buttonText>>
               \/ /\ isRecording' = FALSE
                  /\ buttonText' = "Start Recording"
    /\ UNCHANGED <<encVars, recVars, page, zenMediaRecorder, audioChunks,
                   zenCalls, zenCreated, zenPendingGUM, processRun, alerts>>

(* getUserMedia resolves: the rest of the try block of startRecording. *)
ZenGetUserMediaResolve ==
    /\ zenPendingGUM > 0
    /\ zenPendingGUM' = zenPendingGUM - 1
    /\ zenCreated' = zenCreated + 1
    /\ zenMediaRecorder' = zenCreated + 1
    /\ audioChunks' = <<>>
    /\ zenRecState' = [zenRecState EXCEPT ![zenCreated + 1] = "recording"]
    /\ isRecording' = TRUE
    /\ buttonText' = "Stop Recording"
    /\ UNCHANGED <<encVars, recVars, page, zenCalls, zenStopQueue, processRun,
                   alerts>>

(* getUserMedia rejects: the catch block of startRecording alerts. *)
ZenGetUserMediaReject ==
    /\ zenPendingGUM > 0
    /\ zenPendingGUM' = zenPendingGUM - 1
    /\ alerts' = Append(alerts, "Unable to access microphone")
    /\ UNCHANGED <<encVars, recVars, page, zenMediaRecorder, audioChunks,
                   isRecording, zenRecState, zenCalls, zenCreated,
                   zenStopQueue, processRun, buttonText>>

(* The body of the upload: formData.append('audio', audioBlob). *)
ZenBody(audioBlob) ==
    [filename |-> "blob", type |-> "audio/webm", content |-> audioBlob]

(* The task queued by stop(): dataavailable (the listener pushes the chunk *)
(* onto this.audioChunks), then stop (processAudio builds the Blob from    *)
(* this.audioChunks, calls fetch and suspends at its await).               *)
ZenStopEvent ==
    /\ zenStopQueue # <<>>
    /\ LET r == Head(zenStopQueue)
           pushed == Append(audioChunks, r)
       IN  /\ audioChunks' = pushed
           /\ processRun' = [processRun EXCEPT ![r] =
                 [@ EXCEPT !.pc = "fetch", !.audioBlob = pushed,
                           !.posts = Append(@, ZenBody(pushed))]]
    /\ zenStopQueue' = Tail(zenStopQueue)
    /\ UNCHANGED <<encVars, recVars, page, zenMediaRecorder, isRecording,
                   zenRecState, zenCalls, zenCreated, zenPendingGUM, alerts,
                   buttonText>>

(* The catch block of processAudio: an alert, and the run is over. *)
ZenFailed(r, why) ==
    /\ processRun' = [processRun EXCEPT ![r] =
                        [@ EXCEPT !.pc = "done", !.outcome = why]]
    /\ alerts' = Append(alerts, "Error processing audio")
    /\ UNCHANGED <<encVars, recVars, page, zenMediaRecorder, audioChunks,
                   isRecording, zenRecState, zenCalls, zenCreated,
                   zenPendingGUM, zenStopQueue, buttonText>>

(* fetch resolves with response.ok: response.json() is awaited. *)
ZenFetchOk(r) ==
    /\ processRun[r].pc = "fetch"
    /\ processRun' = [processRun EXCEPT ![r] = [@ EXCEPT !.pc = "json"]]
    /\ UNCHANGED <<encVars, recVars, page, zenMediaRecorder, audioChunks,
                   isRecording, zenRecState, zenCalls, zenCreated,
                   zenPendingGUM, zenStopQueue, alerts, buttonText>>

(* fetch rejects, or resolves with !response.ok and the code throws. *)
ZenFetchFails(r) ==
    /\ processRun[r].pc = "fetch"
    /\ ZenFailed(r, "fetch")

(* response.json() resolves and updateUI(result) returns. *)
ZenJsonResolve(r) ==
    /\ processRun[r].pc = "json"
    /\ processRun' = [processRun EXCEPT ![r] =
                        [@ EXCEPT !.pc = "done", !.outcome = "parsed"]]
    /\ UNCHANGED <<encVars, recVars, page, zenMediaRecorder, audioChunks,
                   isRecording, zenRecState, zenCalls, zenCreated,
                   zenPendingGUM, zenStopQueue, alerts, buttonText>>

(* response.json() resolves and updateUI(result) throws on a result that   *)
(* lacks a field it reads.                                                 *)
ZenUpdateUIThrows(r) ==
    /\ processRun[r].pc = "json"
    /\ ZenFailed(r, "updateUI")

(* response.json() rejects (the body is no JSON). *)
ZenJsonReject(r) ==
    /\ processRun[r].pc = "json"
    /\ ZenFailed(r, "body")

ProcessAudioStep(r) ==
    \/ ZenFetchOk(r)
    \/ ZenFetchFails(r)
    \/ ZenJsonResolve(r)
    \/ ZenUpdateUIThrows(r)
    \/ ZenJsonReject(r)

ZenNext ==
    \/ ZenClickStart
    \/ ZenClickStop
    \/ ZenGetUserMediaResolve
    \/ ZenGetUserMediaReject
    \/ ZenStopEvent
    \/ \E r \in Recorders : ProcessAudioStep(r)

Next == RecNext \/ ZenNext

(* No recording session: the state of both scripts after construction. *)
SessionIdle ==
    /\ page = "recorder.js"
    /\ RecInit
    /\ ZenInit

(* The encoder variables play no part in a recording session. *)
EncIdle ==
    /\ audioBuffer = NoBuffer
    /\ wav = NotCalled
    /\ other = NoBuffer
    /\ wavOther = NotCalled

Init ==
    /\ page \in Pages
    /\ RecInit
    /\ ZenInit
    /\ EncIdle

Spec == Init /\ [][Next]_vars

(***************************************************************************)
(* Encoder specification: every decoded buffer within the bounds is        *)
(* encoded once.                                                           *)
(***************************************************************************)
Shapes ==
    {cf \in (0..MaxChannels) \X (0..MaxFrames) : cf[1] * cf[2] <= MaxSamples}

EncInit ==
    /\ \E cf \in Shapes, r \in SampleRates :
         \E ch \in [1..cf[1] -> [1..cf[2] -> Samples]] :
            audioBuffer = MakeBuffer(cf[1], r, cf[2], ch)
    /\ wav = NotCalled
    /\ other = NoBuffer
    /\ wavOther = NotCalled
    /\ SessionIdle

Encode ==
    /\ ~wav.called
    /\ wav' = encodeWAV(audioBuffer)
    /\ UNCHANGED <<audioBuffer, other, wavOther, recVars, zenVars>>

EncNext == Encode

SpecEncoder == EncInit /\ [][EncNext]_vars

(***************************************************************************)
(* Two-call specification: two decoded buffers, each encoded once, in      *)
(* either order.                                                           *)
(***************************************************************************)
PairShapes ==
    {cf \in (0..PairMaxChannels) \X (0..PairMaxFrames) :
        cf[1] * cf[2] <= PairMaxSamples}

PairInit ==
    /\ \E cf \in PairShapes, r \in SampleRates :
         \E ch \in [1..cf[1] -> [1..cf[2] -> PairSamples]] :
            audioBuffer = MakeBuffer(cf[1], r, cf[2], ch)
    /\ \E cf \in PairShapes, r \in SampleRates :
         \E ch \in [1..cf[1] -> [1..cf[2] -> PairSamples]] :
            other = MakeBuffer(cf[1], r, cf[2], ch)
    /\ wav = NotCalled
    /\ wavOther = NotCalled
    /\ SessionIdle

EncodeOther ==
    /\ ~wavOther.called
    /\ wavOther' = encodeWAV(other)
    /\ UNCHANGED <<audioBuffer, wav, other, recVars, zenVars>>

PairNext == Encode \/ EncodeOther

SpecPair == PairInit /\ [][PairNext]_vars

----------------------------------------------------------------------------
(***************************************************************************)
(* Reading an encoded container back: little-endian fields of a byte       *)
(* sequence, and the expected shape of the output.                         *)
(***************************************************************************)
Uint16At(bytes, offset) == bytes[offset + 1] + 256 * bytes[offset + 2]

Uint32At(bytes, offset) ==
    bytes[offset + 1] + 256 * bytes[offset + 2]
        + 65536 * bytes[offset + 3] + 16777216 * bytes[offset + 4]

Int16At(bytes, offset) ==
    LET u == Uint16At(bytes, offset)
    IN  IF u >= 32768 THEN u - 65536 ELSE u

(* min(2, channelCount), spelled out. *)
OutChannels(ab) == IF ab.numberOfChannels >= 2 THEN 2 ELSE ab.numberOfChannels

(* The encodeWAV call on audioBuffer has returned a Blob. *)
Returned == wav.called /\ ~wav.threw

(* Payload sample k comes from channel k mod C at frame k div C. *)
SourceSample(ab, k) ==
    ab.channels[(k % OutChannels(ab)) + 1][(k \div OutChannels(ab)) + 1]

PayloadIndexes(ab) == 0..(ab.length * OutChannels(ab) - 1)

(* A sample clamped to [-1, 1], spelled out. *)
Clamped(s) == IF s > One THEN One ELSE IF s < -One THEN -One ELSE s

(* The value the spec prescribes for a clamped sample c: c * 32768         *)
(* truncated toward zero when c <= 0 (c * 32768 / One = c / 2), and        *)
(* c * 32767 truncated toward zero when c > 0.                             *)
Quantized(c) == IF c <= 0 THEN -((-c) \div 2) ELSE (c * 32767) \div One

(***************************************************************************)
(* C1.  For every input with at least one channel, encodeWAV returns and   *)
(* the output is exactly 44 + frameCount * min(2, channelCount) * 2 bytes  *)
(* long.                                                                   *)
(***************************************************************************)
C1_OutputLength ==
    (wav.called /\ audioBuffer.numberOfChannels >= 1)
        => /\ ~wav.threw
           /\ Len(wav.bytes) =
                44 + audioBuffer.length * OutChannels(audioBuffer) * 2

C1_Witness ==
    /\ Returned
    /\ audioBuffer.numberOfChannels = 3
    /\ audioBuffer.length = 2
    /\ Len(wav.bytes) = 52

(***************************************************************************)
(* C2.  Payload sample k (bytes 44+2k, 45+2k, little-endian) is the        *)
(* quantization of channel k mod C at frame k div C, C = min(2,            *)
(* channelCount): stereo alternates ch0[i], ch1[i]; mono is channel 0 in   *)
(* order with channel-count field 1.                                       *)
(***************************************************************************)
C2_InterleaveOrder ==
    Returned =>
        /\ Uint16At(wav.bytes, 22) = OutChannels(audioBuffer)
        /\ \A k \in PayloadIndexes(audioBuffer) :
              Int16At(wav.bytes, 44 + 2 * k)
                  = Trunc(Scaled(Clamp(SourceSample(audioBuffer, k))), One)
        /\ audioBuffer.numberOfChannels = 1 =>
              \A i \in 0..(audioBuffer.length - 1) :
                  Int16At(wav.bytes, 44 + 2 * i)
                      = Trunc(Scaled(Clamp(audioBuffer.channels[1][i + 1])), One)
        /\ audioBuffer.numberOfChannels >= 2 =>
              \A i \in 0..(audioBuffer.length - 1) :
                  /\ Int16At(wav.bytes, 44 + 4 * i)
                      = Trunc(Scaled(Clamp(audioBuffer.channels[1][i + 1])), One)
                  /\ Int16At(wav.bytes, 46 + 4 * i)
                      = Trunc(Scaled(Clamp(audioBuffer.channels[2][i + 1])), One)

(* A stereo buffer of two frames whose four samples quantize to four       *)
(* different values, so that any other order would show.                   *)
C2_Witness ==
    /\ Returned
    /\ audioBuffer.numberOfChannels = 2
    /\ audioBuffer.length = 2
    /\ audioBuffer.channels = <<<<0, 32768>>, <<-65535, 98304>>>>
    /\ Int16At(wav.bytes, 44) = 0
    /\ Int16At(wav.bytes, 46) = -32767
    /\ Int16At(wav.bytes, 48) = 16383
    /\ Int16At(wav.bytes, 50) = 32767

(***************************************************************************)
(* C3.  Every input sample above 1.0 is encoded as 32767 and every input   *)
(* sample below -1.0 as -32768 (clamped, never rejected, never wrapped).   *)
(***************************************************************************)
C3_Clamping ==
    Returned =>
        \A k \in PayloadIndexes(audioBuffer) :
            /\ SourceSample(audioBuffer, k) > One
                  => Int16At(wav.bytes, 44 + 2 * k) = 32767
            /\ SourceSample(audioBuffer, k) < -One
                  => Int16At(wav.bytes, 44 + 2 * k) = -32768

C3_Witness ==
    /\ Returned
    /\ audioBuffer.numberOfChannels = 1
    /\ audioBuffer.channels = <<<<98304, -98304>>>>
    /\ Int16At(wav.bytes, 44) = 32767
    /\ Int16At(wav.bytes, 46) = -32768

(***************************************************************************)
(* C4.  For every clamped sample s in [-1, 1] the encoded 16-bit value is  *)
(* s * 32768 truncated toward zero when s <= 0 and s * 32767 truncated     *)
(* toward zero when s > 0; the number handed to setInt16 always lies in    *)
(* [-32768, 32767], so its modulo-2^16 wrapping never acts.                *)
(***************************************************************************)
C4_Quantization ==
    Returned =>
        \A k \in PayloadIndexes(audioBuffer) :
            LET c == Clamped(SourceSample(audioBuffer, k))
                written == Trunc(Scaled(Clamp(SourceSample(audioBuffer, k))), One)
            IN  /\ Int16At(wav.bytes, 44 + 2 * k) = Quantized(c)
                /\ written = Quantized(c)
                /\ written >= -32768
                /\ written <= 32767

(* Truncation toward zero on both sides: -65535/65536 * 32768 = -32767.5   *)
(* gives -32767, and 0.5 * 32767 = 16383.5 gives 16383.                    *)
C4_Witness ==
    /\ Returned
    /\ audioBuffer.numberOfChannels = 1
    /\ audioBuffer.channels = <<<<-65535, 32768>>>>
    /\ Int16At(wav.bytes, 44) = -32767
    /\ Int16At(wav.bytes, 46) = 16383

(***************************************************************************)
(* C5.  The 32-bit field at offset 4 is the output length minus 8 and the  *)
(* 32-bit field at offset 40 is the output length minus 44.                *)
(***************************************************************************)
C5_SizeFields ==
    Returned =>
        /\ Uint32At(wav.bytes, 4) = Len(wav.bytes) - 8
        /\ Uint32At(wav.bytes, 40) = Len(wav.bytes) - 44

C5_Witness ==
    /\ Returned
    /\ audioBuffer.numberOfChannels = 2
    /\ audioBuffer.length = 2
    /\ Uint32At(wav.bytes, 4) = 44
    /\ Uint32At(wav.bytes, 40) = 8

(***************************************************************************)
(* C6.  The output starts with the 44-byte header: 'RIFF' at 0, 'WAVE' at  *)
(* 8, 'fmt ' at 12, 16 at 16, format tag 1 at 20, C = min(2, channelCount) *)
(* at 22, sampleRate at 24, byte rate sampleRate * C * 2 at 28, block      *)
(* align C * 2 at 32, 16 bits per sample at 34, 'data' at 36, all          *)
(* little-endian; byte rate = sampleRate * block align and block align =   *)
(* C * bitsPerSample / 8.                                                  *)
(***************************************************************************)
C6_Header ==
    Returned =>
        LET b == wav.bytes
            C == OutChannels(audioBuffer)
        IN  /\ Len(b) >= 44
            /\ <<b[1], b[2], b[3], b[4]>> = <<82, 73, 70, 70>>
            /\ <<b[9], b[10], b[11], b[12]>> = <<87, 65, 86, 69>>
            /\ <<b[13], b[14], b[15], b[16]>> = <<102, 109, 116, 32>>
            /\ <<b[17], b[18], b[19], b[20]>> = <<16, 0, 0, 0>>
            /\ <<b[21], b[22]>> = <<1, 0>>
            /\ Uint16At(b, 22) = C
            /\ Uint32At(b, 24) = audioBuffer.sampleRate
            /\ Uint32At(b, 28) = audioBuffer.sampleRate * C * 2
            /\ Uint16At(b, 32) = C * 2
            /\ <<b[35], b[36]>> = <<16, 0>>
            /\ <<b[37], b[38], b[39], b[40]>> = <<100, 97, 116, 97>>
            /\ Uint32At(b, 28) = Uint32At(b, 24) * Uint16At(b, 32)
            /\ Uint16At(b, 32) = Uint16At(b, 22) * (Uint16At(b, 34) \div 8)

(* 44100 = 0x0000AC44 and 44100 * 4 = 176400 = 0x0002B110, byte by byte. *)
C6_Witness ==
    /\ Returned
    /\ audioBuffer.numberOfChannels = 3
    /\ audioBuffer.sampleRate = 44100
    /\ SubSeq(wav.bytes, 23, 36) =
          <<2, 0, 68, 172, 0, 0, 16, 177, 2, 0, 4, 0, 16, 0>>

(***************************************************************************)
(* C7.  Channels beyond index 1 never influence the output: two inputs     *)
(* with channelCount >= 2, the same sampleRate, the same frameCount and    *)
(* identical channels 0 and 1 are encoded to the same bytes, with          *)
(* channel-count field 2.                                                  *)
(***************************************************************************)
SameFirstTwo(a, b) ==
    /\ a.numberOfChannels >= 2
    /\ b.numberOfChannels >= 2
    /\ a.sampleRate = b.sampleRate
    /\ a.length = b.length
    /\ a.channels[1] = b.channels[1]
    /\ a.channels[2] = b.channels[2]

C7_ExtraChannelsIgnored ==
    (wav.called /\ wavOther.called /\ SameFirstTwo(audioBuffer, other))
        => /\ ~wav.threw
           /\ ~wavOther.threw
           /\ wav.bytes = wavOther.bytes
           /\ Uint16At(wav.bytes, 22) = 2

(* A 2-channel and a 3-channel buffer that agree on channels 0 and 1,      *)
(* the third channel differing from both.                                  *)
C7_Witness ==
    /\ wav.called
    /\ wavOther.called
    /\ SameFirstTwo(audioBuffer, other)
    /\ audioBuffer.numberOfChannels = 2
    /\ other.numberOfChannels = 3
    /\ other.length = 1
    /\ other.channels = <<<<32768>>, <<32768>>, <<-65535>>>>
    /\ wav.bytes = wavOther.bytes

(***************************************************************************)
(* C8.  Degenerate input never makes encodeWAV fail: with zero frames,     *)
(* and likewise with zero channels, it returns a container of exactly 44   *)
(* bytes whose data chunk size field is 0.                                 *)
(***************************************************************************)
C8_DegenerateInput ==
    (wav.called /\ (audioBuffer.length = 0 \/ audioBuffer.numberOfChannels = 0))
        => /\ ~wav.threw
           /\ Len(wav.bytes) = 44
           /\ Uint32At(wav.bytes, 40) = 0

(***************************************************************************)
(* C9.  Round trip: read as a 16-bit PCM WAVE file (sample = stored        *)
(* integer / 32768) the output has frame count = frameCount, channel count *)
(* = min(2, channelCount), sample rate = sampleRate, and every decoded     *)
(* sample is within a bound of the clamped source sample.  Differences are *)
(* in units of 1/65536: |q / 32768 - c / 65536| = |2q - c| / 65536.        *)
(***************************************************************************)
Abs(x) == IF x < 0 THEN -x ELSE x

(* Frames of a parsed file: data chunk size / block align. *)
ParsedFrames(b) == Uint32At(b, 40) \div Uint16At(b, 32)

(* Sample of channel j at frame i of a parsed file. *)
ParsedSample(b, i, j) == Int16At(b, 44 + i * Uint16At(b, 32) + 2 * j)

RoundTripShape ==
    /\ Uint16At(wav.bytes, 22) = OutChannels(audioBuffer)
    /\ Uint32At(wav.bytes, 24) = audioBuffer.sampleRate
    /\ ParsedFrames(wav.bytes) = audioBuffer.length
    /\ Len(wav.bytes) = 44 + Uint32At(wav.bytes, 40)

(* |decoded - clamped source| of every parsed sample, in units of 1/65536. *)
RoundTripErrors ==
    {Abs(2 * ParsedSample(wav.bytes, i, j)
            - Clamped(audioBuffer.channels[j + 1][i + 1])) :
        i \in 0..(ParsedFrames(wav.bytes) - 1),
        j \in 0..(Uint16At(wav.bytes, 22) - 1)}

(* The claim as stated: every decoded sample at most 1/32768 = 2/65536     *)
(* away from the clamped source sample.                                    *)
C9_RoundTripOneStep ==
    Returned => (RoundTripShape /\ \A e \in RoundTripErrors : e <= 2)

(* Amended: every decoded sample less than 2/32768 = 4/65536 away. *)
C9_RoundTripTwoSteps ==
    Returned => (RoundTripShape /\ \A e \in RoundTripErrors : e < 4)

(* 65535/65536 * 32767 = 32766.5 is stored as 32766 and read back as       *)
(* 32766/32768 = 65532/65536: 3/65536 = 1.5/32768 away from the source.    *)
C9_Witness ==
    /\ Returned
    /\ audioBuffer.numberOfChannels = 2
    /\ audioBuffer.length = 1
    /\ audioBuffer.channels = <<<<65535>>, <<-65535>>>>
    /\ ParsedFrames(wav.bytes) = 1
    /\ ParsedSample(wav.bytes, 0, 0) = 32766
    /\ ParsedSample(wav.bytes, 0, 1) = -32767

----------------------------------------------------------------------------
(***************************************************************************)
(* C10.  In every run of onStop, encodeWAV is invoked if and only if       *)
(* decodeAudioData resolved earlier in that run; when decoding fails the   *)
(* encoder is bypassed and the one body posted to /analyze is the recorded *)
(* WebM blob, as built at the start of the run.                            *)
(***************************************************************************)
C10_EncoderOnlyAfterDecode ==
    \A r \in Recorders :
        /\ run[r].encoded <=> run[r].decode = "ok"
        /\ run[r].decode = "failed" =>
              /\ ~run[r].encoded
              /\ run[r].posts =
                    <<[filename |-> "sample.webm", type |-> "audio/webm",
                       content |-> run[r].webmBlob]>>

(* One finished run whose decode failed and which posted its WebM blob,    *)
(* and one finished run whose decode succeeded and which posted a WAV.     *)
C10_Witness ==
    /\ run[1].pc = "done"
    /\ run[1].decode = "failed"
    /\ ~run[1].encoded
    /\ run[1].webmBlob = <<1>>
    /\ run[1].posts[1].content = <<1>>
    /\ run[2].pc = "done"
    /\ run[2].decode = "ok"
    /\ run[2].encoded
    /\ run[2].posts[1].type = "audio/wav"

----------------------------------------------------------------------------
(***************************************************************************)
(* Steps of the two session machines, recognised by what they change.      *)
(***************************************************************************)

(* A pending getUserMedia call of recorder.js rejects on this step. *)
GetUserMediaRejected ==
    pendingGUM' = pendingGUM - 1 /\ created' = created

(* A pending getUserMedia call of ZenZone rejects on this step. *)
ZenGetUserMediaRejected ==
    zenPendingGUM' = zenPendingGUM - 1 /\ zenCreated' = zenCreated

(* The outcomes of a run whose upload failed. *)
UploadFailures == {"fetch", "body"}

(* The upload of onStop run r fails on this step. *)
UploadFailed(r) ==
    run[r].outcome = "none" /\ run'[r].outcome \in UploadFailures

(* The upload of processAudio run r fails on this step. *)
ZenUploadFailed(r) ==
    processRun[r].outcome = "none" /\ processRun'[r].outcome \in UploadFailures

(***************************************************************************)
(* C11.  Every upstream failure is surfaced to the user: a step on which   *)
(* getUserMedia rejects or an upload fails (fetch rejects, the response is *)
(* not ok, the body is no JSON) ends with status 'Error' in recorder.js    *)
(* and with one more alert in zenzone.js, and it leaves the recorder state *)
(* as it was, so that an idle page stays idle and a click starts a new     *)
(* session.                                                                *)
(***************************************************************************)
C11_FailureStep ==
    /\ GetUserMediaRejected =>
          /\ status' = "Error"
          /\ UNCHANGED <<mediaRecorder, recState>>
    /\ \A r \in Recorders :
          UploadFailed(r) =>
             /\ status' = "Error"
             /\ UNCHANGED <<mediaRecorder, recState>>
    /\ ZenGetUserMediaRejected =>
          /\ Len(alerts') = Len(alerts) + 1
          /\ UNCHANGED <<zenMediaRecorder, zenRecState, isRecording>>
    /\ \A r \in Recorders :
          ZenUploadFailed(r) =>
             /\ Len(alerts') = Len(alerts) + 1
             /\ UNCHANGED <<zenMediaRecorder, zenRecState, isRecording>>

C11_FailuresSurfaced == [][C11_FailureStep]_vars

----------------------------------------------------------------------------
(***************************************************************************)
(* Retries.  A failure happens on a step when a getUserMedia call rejects, *)
(* when a decode is rejected, or when a run ends without a parsed body.    *)
(***************************************************************************)

(* onStop run r ends in its outer catch on this step. *)
RunFailed(r) ==
    run[r].outcome = "none" /\ run'[r].outcome \notin {"none", "parsed"}

(* processAudio run r ends in its catch on this step. *)
ZenRunFailed(r) ==
    /\ processRun[r].outcome = "none"
    /\ processRun'[r].outcome \notin {"none", "parsed"}

(* The decode of onStop run r is rejected on this step. *)
DecodeRejected(r) == run[r].decode = "pending" /\ run'[r].decode = "failed"

(* Nothing is started again on a step where something failed: no new       *)
(* getUserMedia call, no new decode, and no request beyond the fallback    *)
(* upload that a rejected decode leads to; a finished run stays as it is.  *)
NoRetryStep ==
    /\ GetUserMediaRejected =>
          UNCHANGED <<calls, created, run, stopQueue, timers>>
    /\ ZenGetUserMediaRejected =>
          UNCHANGED <<zenCalls, zenCreated, processRun, zenStopQueue>>
    /\ \A r \in Recorders :
          /\ RunFailed(r) =>
                /\ UNCHANGED <<calls, pendingGUM, created>>
                /\ run'[r].posts = run[r].posts
                /\ run'[r].decode = run[r].decode
                /\ run'[r].pc = "done"
                /\ \A q \in Recorders \ {r} : run'[q] = run[q]
          /\ DecodeRejected(r) =>
                /\ UNCHANGED <<calls, pendingGUM, created>>
                /\ Len(run'[r].posts) = 1
                /\ run'[r].pc = "fetch"
          /\ run[r].decode \in {"ok", "failed"} =>
                run'[r].decode = run[r].decode
          /\ run[r].pc = "done" => run'[r] = run[r]
          /\ ZenRunFailed(r) =>
                /\ UNCHANGED <<zenCalls, zenPendingGUM, zenCreated>>
                /\ processRun'[r].posts = processRun[r].posts
                /\ processRun'[r].pc = "done"
                /\ \A q \in Recorders \ {r} : processRun'[q] = processRun[q]
          /\ processRun[r].pc = "done" => processRun'[r] = processRun[r]

(* Every stop event handled so far has issued exactly one POST. *)
OnePostPerStopEvent ==
    \A r \in Recorders :
        /\ run[r].pc = "done" => Len(run[r].posts) = 1
        /\ processRun[r].pc # "idle" => Len(processRun[r].posts) = 1

(* At most one POST per stop event: exactly one once the run is on the WAV *)
(* path, on the WebM fallback path or in processAudio, none before that    *)
(* and none in a run that failed before it reached an upload.              *)
AtMostOnePost ==
    \A r \in Recorders :
        /\ Len(run[r].posts) <= 1
        /\ run[r].path \in {"wav", "webm"} <=> Len(run[r].posts) = 1
        /\ run[r].outcome \in {"context", "encode"} => run[r].posts = <<>>
        /\ run[r].outcome \in {"fetch", "body", "parsed"} =>
              Len(run[r].posts) = 1
        /\ processRun[r].pc # "idle" <=> Len(processRun[r].posts) = 1
        /\ Len(processRun[r].posts) <= 1

(***************************************************************************)
(* C12, as claimed.  No failure is retried automatically: each stop event  *)
(* of a recorder issues exactly one POST to /analyze on every path, and no *)
(* request, decode or getUserMedia call follows a failure without a click. *)
(***************************************************************************)
C12_ExactlyOnePost == []OnePostPerStopEvent /\ [][NoRetryStep]_vars

(***************************************************************************)
(* C12, amended.  No failure is retried automatically: each stop event     *)
(* issues at most one POST to /analyze, exactly one on the WAV path, on    *)
(* the WebM fallback path and in ZenZone.processAudio, and none when       *)
(* onStop fails before the upload (the AudioContext constructor or         *)
(* encodeWAV throws); no request, decode or getUserMedia call follows a    *)
(* failure without a click.                                                *)
(***************************************************************************)
C12_AtMostOnePost == []AtMostOnePost /\ [][NoRetryStep]_vars

(* One run whose upload failed after its single POST and one run that      *)
(* failed at the AudioContext constructor and posted nothing.              *)
C12_Witness ==
    /\ run[1].pc = "done"
    /\ run[1].outcome = "fetch"
    /\ Len(run[1].posts) = 1
    /\ run[2].pc = "done"
    /\ run[2].outcome = "context"
    /\ run[2].posts = <<>>

----------------------------------------------------------------------------
(* The 8-second timer armed by the startRecording call that created        *)
(* recorder k has not fired yet.                                           *)
TimerArmed(k) == \E i \in 1..Len(timers) : timers[i] = k

(***************************************************************************)
(* C13.  Auto stop: no recorder of recorder.js is still recording once the *)
(* timer armed by the startRecording call that started it has fired, under *)
(* any interleaving of clicks and getUserMedia completions.                *)
(***************************************************************************)
C13_AutoStop ==
    \A r \in Recorders : recState[r] = "recording" => TimerArmed(r)

----------------------------------------------------------------------------
(* The entries of a run's trace that are calls of window.onAnalyzeResult. *)
Invocations(trace) == SelectSeq(trace, LAMBDA t : t = "onAnalyzeResult")

(* The status texts of a run's trace, in the order they were set. *)
StatusTexts(trace) == SelectSeq(trace, LAMBDA t : t # "onAnalyzeResult")

(***************************************************************************)
(* C14.  In every onStop run window.onAnalyzeResult is invoked at most     *)
(* once, only after an ok response whose JSON body was parsed, and only    *)
(* right after the status text was set to 'Done'; it is never invoked in a *)
(* run whose upload failed.                                                *)
(***************************************************************************)
C14_CallbackAfterDone ==
    \A r \in Recorders :
        LET t == run[r].trace
            n == Len(Invocations(t))
        IN  /\ n <= 1
            /\ n = 1 <=> run[r].callback \in {"returned", "threw"}
            /\ n = 1 =>
                  /\ run[r].outcome = "parsed"
                  /\ Len(run[r].posts) = 1
                  /\ \E i \in 2..Len(t) :
                        /\ t[i] = "onAnalyzeResult"
                        /\ t[i - 1] = "Done"
                        /\ \A j \in 1..(i - 1) : t[j] # "Error"
            /\ run[r].outcome \in UploadFailures =>
                  /\ n = 0
                  /\ run[r].callback = "none"

(* One run that invoked the callback after 'Done', and one run whose       *)
(* upload failed and which ended in 'Error' without invoking it.           *)
C14_Witness ==
    /\ run[1].pc = "done"
    /\ run[1].callback = "returned"
    /\ run[1].trace = <<"Uploading...", "Done", "onAnalyzeResult">>
    /\ run[2].pc = "done"
    /\ run[2].outcome = "body"
    /\ run[2].trace = <<"Uploading...", "Error">>

----------------------------------------------------------------------------
(***************************************************************************)
(* C15.  A timer armed by one session never stops the recorder of a later  *)
(* session: when the user has stopped recorder k with a click and a later  *)
(* recorder r was stopped by a timer, that timer is not the one armed for  *)
(* recorder k.                                                             *)
(***************************************************************************)
C15_OwnTimerOnly ==
    \A k \in Recorders, r \in Recorders :
        (k < r /\ stoppedBy[k] = <<"click", 0>> /\ stoppedBy[r][1] = "timer")
            => stoppedBy[r][2] # k

----------------------------------------------------------------------------
(***************************************************************************)
(* C16.  Every recorder in the recording state is the one the variable     *)
(* refers to (mediaRecorder in recorder.js, this.mediaRecorder in          *)
(* zenzone.js), so at most one recorder is recording and a click can stop  *)
(* it, under every interleaving of clicks with pending getUserMedia calls. *)
(***************************************************************************)
C16_SingleRecorder ==
    \A r \in Recorders :
        /\ recState[r] = "recording" => mediaRecorder = r
        /\ zenRecState[r] = "recording" => zenMediaRecorder = r /\ isRecording

----------------------------------------------------------------------------
(***************************************************************************)
(* C17.  Session isolation: the blob that onStop, and processAudio, builds *)
(* for the stop event of recorder r holds exactly the chunks recorder r    *)
(* emitted, in emission order, and no chunk of another recorder.           *)
(***************************************************************************)
C17_SessionIsolation ==
    \A r \in Recorders :
        /\ run[r].pc # "idle" => run[r].webmBlob = <<r>>
        /\ processRun[r].pc # "idle" => processRun[r].audioBlob = <<r>>

----------------------------------------------------------------------------
(***************************************************************************)
(* C18.  The two upload paths of onStop are observationally equivalent: a  *)
(* finished run on the WAV path and a finished run on the WebM fallback    *)
(* path that met the same server response and the same behaviour of        *)
(* window.onAnalyzeResult set the same status texts in the same order, so  *)
(* a throwing callback ends in 'Error' on both.                            *)
(***************************************************************************)
C18_PathsEquivalent ==
    \A a \in Recorders, b \in Recorders :
        (/\ run[a].pc = "done"
         /\ run[b].pc = "done"
         /\ run[a].path = "wav"
         /\ run[b].path = "webm"
         /\ run[a].outcome = run[b].outcome
         /\ run[a].callback = run[b].callback)
            => LET wavTexts == StatusTexts(run[a].trace)
                   webmTexts == StatusTexts(run[b].trace)
               IN  /\ wavTexts = webmTexts
                   /\ run[a].callback = "threw" =>
                         /\ wavTexts[Len(wavTexts)] = "Error"
                         /\ webmTexts[Len(webmTexts)] = "Error"

=============================================================================
